---- MODULE Spec2Model ----
(***************************************************************************)
(* Model of the davis assembler (src/app/assembly/assembler.ts) and of the *)
(* CPU execution engine (src/unnamed/part_000, the emulation/cpu module).  *)
(*                                                                         *)
(* Spec     : one assemble() call on a parsed program, line by line.       *)
(* SpecCPU  : a CPU constructed on an assembled Program, driven by step(), *)
(*            run(), pause(), reset(), the breakpoint setter and timers.   *)
(***************************************************************************)
EXTENDS Integers, Sequences, FiniteSets, TLC

VARIABLES parsedProgram, asm, cpu, last

vars == <<parsedProgram, asm, cpu, last>>

(***************************************************************************)
(* Bounds of the model.                                                    *)
(***************************************************************************)
MaxDataLines == 2
MaxTextLines == 2

(***************************************************************************)
(* JavaScript values.                                                      *)
(***************************************************************************)
Null == [tag |-> "null"]
Undefined == [tag |-> "undefined"]
EmptyObject == [tag |-> "{}"]

Return(v, marked) == [thrown |-> FALSE, value |-> v, marked |-> marked]
Throw(e) == [thrown |-> TRUE, exc |-> e]

AssemblyException(message, line, data) ==
    [type |-> "AssemblyException", message |-> message, line |-> line, data |-> data]

\* Reading a property of undefined.
TypeError(property) ==
    [type |-> "TypeError", message |-> "Cannot read property '" \o property \o "' of undefined"]

(***************************************************************************)
(* Static tables.                                                          *)
(***************************************************************************)
RegisterNames ==
    {"NULL", "EIP", "EBP", "ESP", "EAX", "AX", "AH", "AL",
     "EBX", "BX", "BH", "BL", "ECX", "CX", "CH", "CL"}

RegisterInfo(id, bank, byteSize, index) ==
    [id |-> id, bank |-> bank, byteSize |-> byteSize, index |-> index]

\* The table with the high 1-byte views at offset 0.
REGISTER_INDEX_HighAtZero(name) ==
    CASE name = "NULL" -> RegisterInfo(0, 0, 4, 0)
      [] name = "EIP"  -> RegisterInfo(1, 1, 4, 0)
      [] name = "EBP"  -> RegisterInfo(2, 2, 4, 0)
      [] name = "ESP"  -> RegisterInfo(3, 3, 4, 0)
      [] name = "EAX"  -> RegisterInfo(20, 4, 4, 0)
      [] name = "AX"   -> RegisterInfo(21, 4, 2, 0)
      [] name = "AH"   -> RegisterInfo(22, 4, 1, 0)
      [] name = "AL"   -> RegisterInfo(23, 4, 1, 0)
      [] name = "EBX"  -> RegisterInfo(24, 5, 4, 0)
      [] name = "BX"   -> RegisterInfo(25, 5, 2, 0)
      [] name = "BH"   -> RegisterInfo(26, 5, 1, 0)
      [] name = "BL"   -> RegisterInfo(27, 5, 1, 0)
      [] name = "ECX"  -> RegisterInfo(28, 6, 4, 0)
      [] name = "CX"   -> RegisterInfo(29, 6, 2, 0)
      [] name = "CH"   -> RegisterInfo(30, 6, 1, 0)
      [] name = "CL"   -> RegisterInfo(31, 6, 1, 0)

REGISTER_INDEX(name) ==
    CASE name = "NULL" -> RegisterInfo(0, 0, 4, 0)
      [] name = "EIP"  -> RegisterInfo(1, 1, 4, 0)
      [] name = "EBP"  -> RegisterInfo(2, 2, 4, 0)
      [] name = "ESP"  -> RegisterInfo(3, 3, 4, 0)
      [] name = "EAX"  -> RegisterInfo(20, 4, 4, 0)
      [] name = "AX"   -> RegisterInfo(21, 4, 2, 0)
      [] name = "AH"   -> RegisterInfo(22, 4, 1, 1)
      [] name = "AL"   -> RegisterInfo(23, 4, 1, 0)
      [] name = "EBX"  -> RegisterInfo(24, 5, 4, 0)
      [] name = "BX"   -> RegisterInfo(25, 5, 2, 0)
      [] name = "BH"   -> RegisterInfo(26, 5, 1, 1)
      [] name = "BL"   -> RegisterInfo(27, 5, 1, 0)
      [] name = "ECX"  -> RegisterInfo(28, 6, 4, 0)
      [] name = "CX"   -> RegisterInfo(29, 6, 2, 0)
      [] name = "CH"   -> RegisterInfo(30, 6, 1, 1)
      [] name = "CL"   -> RegisterInfo(31, 6, 1, 0)

InstructionMapping == {"MOV", "JMP", "INT"}

\* Instruction.getValidParameters(): the operand-kind masks of each mnemonic.
getValidParameters(name) ==
    CASE name = "MOV" -> << <<"Reg", "Reg">>, <<"Reg", "Constant">>,
                            <<"Reg", "Memory">>, <<"Memory", "Reg">>,
                            <<"Memory", "Constant">> >>
      [] name = "JMP" -> << <<"Label">> >>
      [] name = "INT" -> << <<"Constant">> >>

\* Instruction.toString(): the display name of the instruction.
InstructionToString(name) == name

\* String.prototype.charCodeAt(0) on the characters the model's strings use.
charCodeAt(c) ==
    CASE c = "h" -> 104
      [] c = "i" -> 105
      [] OTHER   -> 63

(***************************************************************************)
(* LabelResolver.                                                          *)
(***************************************************************************)
Label(name, local, address) == [name |-> name, local |-> local, address |-> address]

NewLabelResolver == [labels |-> <<>>, unresolvedParameters |-> <<>>]

hasLabel(labels, label) == \E k \in 1..Len(labels) : labels[k].name = label

\* labels[label], for a label the table has.
LabelNamed(labels, label) ==
    labels[CHOOSE k \in 1..Len(labels) : labels[k].name = label]

\* _.findLast over the table in insertion order; Undefined when none matches.
findPreviousGlobalLabel(labels, address) ==
    LET hits == {k \in 1..Len(labels) : ~labels[k].local /\ labels[k].address <= address}
    IN IF hits = {} THEN Undefined
       ELSE labels[CHOOSE k \in hits : \A m \in hits : m <= k]

normalizeLabelName(labels, label, local, address) ==
    IF local
    THEN LET previousLabel == findPreviousGlobalLabel(labels, address)
         IN IF previousLabel = Undefined
            THEN Throw(AssemblyException("Local label without a global label: " \o label,
                                         0, EmptyObject))
            ELSE Return(previousLabel.name \o "." \o label, <<>>)
    ELSE Return(label, <<>>)

\* addLabel without the hasLabel test: a second definition is stored silently.
addLabel_NoDuplicateTest(resolver, address, label, local) ==
    LET n == normalizeLabelName(resolver.labels, label, local, address)
    IN IF n.thrown THEN n
       ELSE Return([resolver EXCEPT
                       !.labels = Append(@, Label(n.value, local, address))], <<>>)

\* Returns the resolver with the label added, or the exception thrown.
addLabel(resolver, address, label, local) ==
    LET n == normalizeLabelName(resolver.labels, label, local, address)
    IN IF n.thrown THEN n
       ELSE IF hasLabel(resolver.labels, n.value)
            THEN Throw(AssemblyException("Duplicate label found: " \o n.value, 0, EmptyObject))
            ELSE Return([resolver EXCEPT
                            !.labels = Append(@, Label(n.value, local, address))], <<>>)

markUnresolvedParameter(resolver, labelParameter) ==
    [resolver EXCEPT !.unresolvedParameters = Append(@, labelParameter)]

\* Resolves every recorded label operand inside `instructions`; the first
\* operand whose label is absent throws.  A recorded operand is the object
\* stored at instructions[ref[1]].parameters[ref[2]].
RECURSIVE resolveFrom(_, _, _)
resolveFrom(resolver, instructions, k) ==
    IF k > Len(resolver.unresolvedParameters) THEN Return(instructions, <<>>)
    ELSE LET labelParameter == resolver.unresolvedParameters[k]
         IN IF ~hasLabel(resolver.labels, labelParameter.label)
            THEN Throw(AssemblyException("Unknown label " \o labelParameter.label,
                                         0, EmptyObject))
            ELSE resolveFrom(resolver,
                    [instructions EXCEPT
                        ![labelParameter.ref[1]].parameters[labelParameter.ref[2]] =
                            [@ EXCEPT !.resolved = TRUE,
                                      !.address =
                                         LabelNamed(resolver.labels, labelParameter.label).address]],
                    k + 1)

resolveAddresses(resolver, instructions) == resolveFrom(resolver, instructions, 1)

(***************************************************************************)
(* Assembler: operand encoding.                                            *)
(***************************************************************************)
RegisterParameter(size, registerId) ==
    [tag |-> "Reg", size |-> size, registerId |-> registerId]

ConstantParameter(size, value, deref) ==
    [tag |-> "Constant", size |-> size, value |-> value, deref |-> deref]

MemoryParameter(size, baseRegId, indexRegId, multiplier, constant) ==
    [tag |-> "Memory", size |-> size, baseRegId |-> baseRegId, indexRegId |-> indexRegId,
     multiplier |-> multiplier, constant |-> constant]

LabelParameter(size, label, deref) ==
    [tag |-> "Label", size |-> size, label |-> label, deref |-> deref,
     resolved |-> FALSE, address |-> 0]

\* _.has(object, key) on a parsed object.
has(object, key) == key \in DOMAIN object

RECURSIVE getInnerParameter(_)
getInnerParameter(operand) ==
    IF operand.tag = "Cast" THEN getInnerParameter(operand.value) ELSE operand

getParameterSize(operand) ==
    IF operand.tag = "Cast" THEN (IF operand.size > 0 THEN operand.size ELSE 4) ELSE 4

parseRegisterName(operand) ==
    IF operand.name \notin RegisterNames
    THEN Throw(AssemblyException("Unknown register " \o operand.name, 0, EmptyObject))
    ELSE Return(operand.name, <<>>)

parseRegisterParameter(size, operand) ==
    LET n == parseRegisterName(operand)
    IN IF n.thrown THEN n
       ELSE Return(RegisterParameter(size, REGISTER_INDEX(n.value).id), <<>>)

parseConstantParameter(size, operand) ==
    Return(ConstantParameter(size, operand.value, has(operand, "deref")), <<>>)

parseMemoryParameter(size, operand) ==
    LET base == parseRegisterName(operand.baseRegister)
        index == IF operand.indexRegister # Null
                 THEN parseRegisterName(operand.indexRegister)
                 ELSE Return("NULL", <<>>)
        multiplier == IF operand.multiplier # Null THEN operand.multiplier.value ELSE 0
        constant == IF operand.constant # Null THEN operand.constant.value ELSE 0
    IN IF base.thrown THEN base
       ELSE IF index.thrown THEN index
       ELSE Return(MemoryParameter(size, REGISTER_INDEX(base.value).id,
                                   REGISTER_INDEX(index.value).id, multiplier, constant), <<>>)

\* `marked` of the result lists the operands handed to
\* assemblyData.labelResolver.markUnresolvedParameter during the call.
parseLabelParameter(size, operand, assemblyData) ==
    LET labelParameter == LabelParameter(size, operand.value, has(operand, "deref"))
    IN IF assemblyData = Undefined THEN Throw(TypeError("labelResolver"))
       ELSE Return(labelParameter, <<labelParameter>>)

\* checkParameterCompatibility that compares with the first valid mask only.
checkParameterCompatibility_FirstMaskOnly(name, operands) ==
    LET parameterMask == [k \in 1..Len(operands) |-> getInnerParameter(operands[k]).tag]
        validMasks == getValidParameters(name)
    IN IF Len(validMasks) > 0 /\ parameterMask = validMasks[1]
       THEN Return(TRUE, <<>>)
       ELSE Throw(AssemblyException("Unknown parameter combination for instruction "
                                        \o InstructionToString(name), 0, EmptyObject))

checkParameterCompatibility(name, operands) ==
    LET parameterMask == [k \in 1..Len(operands) |-> getInnerParameter(operands[k]).tag]
        validMasks == getValidParameters(name)
    IN IF \E m \in 1..Len(validMasks) : parameterMask = validMasks[m]
       THEN Return(TRUE, <<>>)
       ELSE Throw(AssemblyException("Unknown parameter combination for instruction "
                                        \o InstructionToString(name), 0, EmptyObject))

\* mapping[innerOperand.tag].call(this, size, innerOperand): the builders are
\* called with two arguments, so a third parameter is undefined.
parseOperand(operand) ==
    LET innerOperand == getInnerParameter(operand)
        size == getParameterSize(operand)
    IN CASE innerOperand.tag = "Reg"      -> parseRegisterParameter(size, innerOperand)
         [] innerOperand.tag = "Constant" -> parseConstantParameter(size, innerOperand)
         [] innerOperand.tag = "Memory"   -> parseMemoryParameter(size, innerOperand)
         [] innerOperand.tag = "Label"    -> parseLabelParameter(size, innerOperand, Undefined)

\* _.map over the operands, left to right; the first builder that throws ends it.
RECURSIVE mapOperands(_, _, _, _)
mapOperands(operands, k, parameters, marked) ==
    IF k > Len(operands) THEN Return(parameters, marked)
    ELSE LET p == parseOperand(operands[k])
         IN IF p.thrown THEN p
            ELSE mapOperands(operands, k + 1, Append(parameters, p.value),
                             marked \o [m \in 1..Len(p.marked) |->
                                           [label |-> p.marked[m].label, operand |-> k]])

\* loadParameters that encodes the operands before it validates their kinds.
loadParameters_EncodeFirst(name, operands) ==
    LET p == mapOperands(operands, 1, <<>>, <<>>)
        c == checkParameterCompatibility(name, operands)
    IN IF p.thrown THEN p ELSE IF c.thrown THEN c ELSE p

loadParameters(name, operands) ==
    LET c == checkParameterCompatibility(name, operands)
    IN IF c.thrown THEN c ELSE mapOperands(operands, 1, <<>>, <<>>)

EncodedInstruction(name, parameters) == [name |-> name, parameters |-> parameters]

parseInstruction(instruction) ==
    IF instruction.name \notin InstructionMapping
    THEN Throw(AssemblyException("Unknown instruction type " \o instruction.type,
                                 0, EmptyObject))
    ELSE LET p == loadParameters(instruction.name, instruction.operands)
         IN IF p.thrown THEN p
            ELSE Return(EncodedInstruction(instruction.name, p.value), p.marked)

(***************************************************************************)
(* Program and LineMap (assembly/program).                                 *)
(***************************************************************************)
\* null where the code holds a number or null (line.size, an address).
NullNumber == -1

NewLineMap == <<>>

\* lineMap.mapLine(address, line)
mapLine(lineMap, address, line) == Append(lineMap, [address |-> address, line |-> line])

\* lineMap.getAddressByLine(line): the address mapped to the line, or null.
getAddressByLine(lineMap, line) ==
    LET hits == {k \in 1..Len(lineMap) : lineMap[k].line = line}
    IN IF hits = {} THEN NullNumber
       ELSE lineMap[CHOOSE k \in hits : \A m \in hits : k <= m].address

Program(instructions, memoryDefinitions, lineMap) ==
    [instructions |-> instructions, memoryDefinitions |-> memoryDefinitions,
     lineMap |-> lineMap]

(***************************************************************************)
(* Assembler: the two passes.                                              *)
(***************************************************************************)
NewAssemblyData ==
    [textAddress |-> 0, dataAddress |-> 0, lineMap |-> NewLineMap,
     labelResolver |-> NewLabelResolver]

\* MemoryType: Data = 0, Text = 1
getAddress(assemblyData, memoryType) ==
    IF memoryType = "Data" THEN assemblyData.dataAddress ELSE assemblyData.textAddress

MemoryDefinition(address, size, value) ==
    [address |-> address, size |-> size, value |-> value]

\* Returns the assemblyData with the label defined, or the exception thrown.
assembleLabel(label, assemblyData, memoryType) ==
    LET r == addLabel(assemblyData.labelResolver, getAddress(assemblyData, memoryType),
                      label.name.value, label.local)
    IN IF r.thrown THEN r
       ELSE Return([assemblyData EXCEPT !.labelResolver = r.value], <<>>)

\* The definitions of one constant, every character of a string at `address`.
constantDefinitions_StringAtOneAddress(constant, address, size) ==
    IF constant.tag = "String"
    THEN [j \in 1..Len(constant.value) |->
             MemoryDefinition(address, size, charCodeAt(constant.value[j]))]
    ELSE IF constant.tag = "Number"
    THEN <<MemoryDefinition(address, size, constant.value)>>
    ELSE <<>>

\* The definitions of one constant, the first at `address`.
constantDefinitions(constant, address, size) ==
    IF constant.tag = "String"
    THEN [j \in 1..Len(constant.value) |->
             MemoryDefinition(address + (j - 1) * size, size, charCodeAt(constant.value[j]))]
    ELSE IF constant.tag = "Number"
    THEN <<MemoryDefinition(address, size, constant.value)>>
    ELSE <<>>

RECURSIVE constantsFrom(_, _, _, _, _)
constantsFrom(constants, k, address, size, definitions) ==
    IF k > Len(constants) THEN [definitions |-> definitions, dataAddress |-> address]
    ELSE LET d == constantDefinitions(constants[k], address, size)
         IN constantsFrom(constants, k + 1, address + Len(d) * size, size, definitions \o d)

\* value: the definitions of the line and the assemblyData after it.
assembleMemoryDefinitions(line, assemblyData) ==
    LET l == IF line.label # Null
             THEN assembleLabel(line.label, assemblyData, "Data")
             ELSE Return(assemblyData, <<>>)
    IN IF l.thrown THEN l
       ELSE IF line.size # NullNumber
       THEN LET c == constantsFrom(line.constants, 1, l.value.dataAddress, line.size, <<>>)
            IN Return([definitions |-> c.definitions,
                       assemblyData |-> [l.value EXCEPT !.dataAddress = c.dataAddress]], <<>>)
       ELSE Return([definitions |-> <<>>, assemblyData |-> l.value], <<>>)

\* value: the encoded instruction (or Null) and the assemblyData after the line.
assembleInstruction(line, assemblyData) ==
    LET l == IF line.label # Null
             THEN assembleLabel(line.label, assemblyData, "Text")
             ELSE Return(assemblyData, <<>>)
    IN IF l.thrown THEN l
       ELSE IF line.instruction # Null
       THEN LET p == parseInstruction(line.instruction)
            IN IF p.thrown THEN p
               ELSE Return(
                      [instruction |-> p.value,
                       assemblyData |->
                          [l.value EXCEPT !.labelResolver.unresolvedParameters =
                              @ \o [m \in 1..Len(p.marked) |->
                                      [label |-> p.marked[m].label,
                                       ref |-> <<l.value.textAddress + 1,
                                                 p.marked[m].operand>>]]]], <<>>)
       ELSE Return([instruction |-> Null, assemblyData |-> l.value], <<>>)

\* The catch clause of both passes: an AssemblyException is re-thrown with the
\* line number and the parsed line, anything else is re-thrown as it is.
rethrow(e, line, data) ==
    IF e.type = "AssemblyException" THEN AssemblyException(e.message, line + 1, data) ELSE e

\* The state of one assemble() call.
NewAssembly ==
    [status |-> "running", i |-> 0, j |-> 0, assemblyData |-> NewAssemblyData,
     memoryDefinitions |-> <<>>, instructions |-> <<>>, exception |-> Null,
     program |-> Null]

\* Where assemble() stands: in a pass, before resolveAddresses, or left.
Phase(parsed, a) ==
    IF a.status # "running" THEN a.status
    ELSE IF a.i < Len(parsed.data) THEN "data"
    ELSE IF a.j < Len(parsed.text) THEN "text"
    ELSE "resolve"

\* One iteration of the loop of assembleDataSegment.
assembleDataSegment(parsed, a) ==
    LET entry == parsed.data[a.i + 1]
        line == entry.location.start.line - 1
        r == assembleMemoryDefinitions(entry.line, a.assemblyData)
    IN IF r.thrown
       THEN [a EXCEPT !.status = "thrown", !.exception = rethrow(r.exc, line, entry.line)]
       ELSE [a EXCEPT !.i = @ + 1,
                      !.memoryDefinitions = @ \o r.value.definitions,
                      !.assemblyData = r.value.assemblyData]

\* The loop of assembleTextSegment with the cursor advanced at every line.
assembleTextSegment_CountsEveryLine(parsed, a) ==
    LET entry == parsed.text[a.j + 1]
        line == entry.location.start.line - 1
        r == assembleInstruction(entry.line, a.assemblyData)
    IN IF r.thrown
       THEN [a EXCEPT !.status = "thrown", !.exception = rethrow(r.exc, line, entry.line)]
       ELSE IF r.value.instruction # Null
       THEN [a EXCEPT !.j = @ + 1,
                      !.instructions = Append(@, r.value.instruction),
                      !.assemblyData =
                          [r.value.assemblyData EXCEPT
                              !.lineMap = mapLine(@, r.value.assemblyData.textAddress, line),
                              !.textAddress = @ + 1]]
       ELSE [a EXCEPT !.j = @ + 1,
                      !.assemblyData = [r.value.assemblyData EXCEPT !.textAddress = @ + 1]]

\* One iteration of the loop of assembleTextSegment.
assembleTextSegment(parsed, a) ==
    LET entry == parsed.text[a.j + 1]
        line == entry.location.start.line - 1
        r == assembleInstruction(entry.line, a.assemblyData)
    IN IF r.thrown
       THEN [a EXCEPT !.status = "thrown", !.exception = rethrow(r.exc, line, entry.line)]
       ELSE IF r.value.instruction # Null
       THEN [a EXCEPT !.j = @ + 1,
                      !.instructions = Append(@, r.value.instruction),
                      !.assemblyData =
                          [r.value.assemblyData EXCEPT
                              !.lineMap = mapLine(@, r.value.assemblyData.textAddress, line),
                              !.textAddress = @ + 1]]
       ELSE [a EXCEPT !.j = @ + 1, !.assemblyData = r.value.assemblyData]

\* The end of assemble(): resolveAddresses, then the Program is returned.
assembleReturn(a) ==
    LET r == resolveAddresses(a.assemblyData.labelResolver, a.instructions)
    IN IF r.thrown
       THEN [a EXCEPT !.status = "thrown", !.exception = r.exc]
       ELSE [a EXCEPT !.status = "returned", !.instructions = r.value,
                      !.program = Program(r.value, a.memoryDefinitions,
                                          a.assemblyData.lineMap)]

assembleStep(parsed, a) ==
    CASE Phase(parsed, a) = "data"    -> assembleDataSegment(parsed, a)
      [] Phase(parsed, a) = "text"    -> assembleTextSegment(parsed, a)
      [] Phase(parsed, a) = "resolve" -> assembleReturn(a)
      [] OTHER -> a

\* assemble() run to its end on a parsed program.
RECURSIVE assembleFrom(_, _)
assembleFrom(parsed, a) ==
    IF a.status # "running" THEN a ELSE assembleFrom(parsed, assembleStep(parsed, a))

assemble(parsed) == assembleFrom(parsed, NewAssembly)

(***************************************************************************)
(* Parsed programs: what the parser hands to the assembler.                *)
(***************************************************************************)
GlobalLabel(name) == [tag |-> "Label", name |-> [value |-> name], local |-> FALSE]
LocalLabel(name) == [tag |-> "Label", name |-> [value |-> name], local |-> TRUE]

Reg(name) == [tag |-> "Reg", name |-> name]
Constant(value) == [tag |-> "Constant", value |-> value]
LabelOperand(name) == [tag |-> "Label", value |-> name]
Cast(size, operand) == [tag |-> "Cast", size |-> size, value |-> operand]

ParsedInstruction(name, operands) ==
    [tag |-> "Instruction", type |-> "Instruction", name |-> name, operands |-> operands]

MovEax5 == ParsedInstruction("MOV", <<Reg("EAX"), Constant(5)>>)
MovAx7 == ParsedInstruction("MOV", <<Cast(2, Reg("AX")), Constant(7)>>)
\* a valid operand-kind list with an unknown register name
MovXyz5 == ParsedInstruction("MOV", <<Reg("XYZ"), Constant(5)>>)
\* an invalid operand-kind list with an unknown register name
Mov5Xyz == ParsedInstruction("MOV", <<Cast(1, Constant(5)), Reg("XYZ")>>)
JmpA == ParsedInstruction("JMP", <<LabelOperand("a")>>)
Int0 == ParsedInstruction("INT", <<Constant(0)>>)
Foo == ParsedInstruction("FOO", <<>>)

TextLine(label, instruction) ==
    [tag |-> "Line", label |-> label, instruction |-> instruction]

TextLines ==
    {TextLine(Null, Null)}
    \cup {TextLine(l, Null) : l \in {GlobalLabel("a"), GlobalLabel("b"), LocalLabel("x")}}
    \cup {TextLine(Null, ins) : ins \in {MovEax5, MovXyz5, Mov5Xyz, JmpA, Int0, Foo}}
    \cup {TextLine(GlobalLabel("a"), Int0), TextLine(LocalLabel("x"), MovAx7)}

DataLine(label, size, constants) ==
    [tag |-> "DataLine", label |-> label, size |-> size, constants |-> constants]

DataLines ==
    {DataLine(GlobalLabel("a"), 1, <<[tag |-> "Number", value |-> 1]>>),
     DataLine(LocalLabel("x"), 2, <<[tag |-> "String", value |-> <<"h", "i">>]>>),
     DataLine(Null, 4, <<[tag |-> "Number", value |-> 7]>>),
     DataLine(GlobalLabel("b"), NullNumber, <<>>)}

SeqsUpTo(S, n) == UNION {[1..k -> S] : k \in 0..n}

\* The data lines come first in the source text, one parsed entry per line.
Parsed(data, text) ==
    [data |-> [k \in 1..Len(data) |->
                  [location |-> [start |-> [line |-> k]], line |-> data[k]]],
     text |-> [k \in 1..Len(text) |->
                  [location |-> [start |-> [line |-> Len(data) + k]], line |-> text[k]]]]

ParsedPrograms(maxData, maxText) ==
    {Parsed(d, t) : d \in SeqsUpTo(DataLines, maxData),
                    t \in SeqsUpTo(TextLines, maxText)}

(***************************************************************************)
(* Spec: one assemble() call.                                              *)
(***************************************************************************)
NoCPU == [constructed |-> FALSE]
NoCall == [op |-> "none"]

Init ==
    /\ parsedProgram \in ParsedPrograms(MaxDataLines, MaxTextLines)
    /\ asm = NewAssembly
    /\ cpu = NoCPU
    /\ last = NoCall

AssembleDataLine ==
    /\ Phase(parsedProgram, asm) = "data"
    /\ asm' = assembleDataSegment(parsedProgram, asm)
    /\ UNCHANGED <<parsedProgram, cpu, last>>

AssembleTextLine ==
    /\ Phase(parsedProgram, asm) = "text"
    /\ asm' = assembleTextSegment(parsedProgram, asm)
    /\ UNCHANGED <<parsedProgram, cpu, last>>

AssembleReturn ==
    /\ Phase(parsedProgram, asm) = "resolve"
    /\ asm' = assembleReturn(asm)
    /\ UNCHANGED <<parsedProgram, cpu, last>>

Next == AssembleDataLine \/ AssembleTextLine \/ AssembleReturn

Spec == Init /\ [][Next]_vars

(***************************************************************************)
(* CPU: registers and memory (MemoryBlock, MemoryView).                    *)
(***************************************************************************)
MemorySize == 16

Pow256(k) == 256 ^ k

\* new MemoryBlock(size): zeroed bytes
MemoryBlock(size) == [b \in 0..(size - 1) |-> 0]

\* MemoryView.getValue() of a view of `size` bytes at `index` of a block:
\* the bytes as a little-endian number.
RECURSIVE viewGet(_, _, _)
viewGet(block, index, size) ==
    IF size = 0 THEN 0
    ELSE block[index] + 256 * viewGet(block, index + 1, size - 1)

\* MemoryView.setValue(value): the low `size` bytes of the value.
viewSet(block, index, size, value) ==
    [b \in DOMAIN block |->
        IF b >= index /\ b < index + size
        THEN (value \div Pow256(b - index)) % 256
        ELSE block[b]]

\* MemoryBlock.size
blockSize(block) == Cardinality(DOMAIN block)

\* this.registers: ten blocks of four bytes
NewRegisters == [bank \in 0..9 |-> MemoryBlock(4)]

\* getRegisterByName(name).getValue()
getRegisterValue(registers, name) ==
    viewGet(registers[REGISTER_INDEX(name).bank], REGISTER_INDEX(name).index,
            REGISTER_INDEX(name).byteSize)

\* getRegisterByName(name).setValue(value)
setRegisterValue(registers, name, value) ==
    [registers EXCEPT ![REGISTER_INDEX(name).bank] =
        viewSet(@, REGISTER_INDEX(name).index, REGISTER_INDEX(name).byteSize, value)]

\* getRegisterByIndex(index): the name of the register with that id
getRegisterByIndex(index) == CHOOSE name \in RegisterNames : REGISTER_INDEX(name).id = index

(***************************************************************************)
(* CPU: the engine.  A CPU value holds the object's fields, the timers of  *)
(* the event loop that are pending (timers) and the number of onExit       *)
(* notifications made so far (exits).                                      *)
(***************************************************************************)
eip(c) == getRegisterValue(c.registers, "EIP")

isFinished(c) == eip(c) >= Len(c.program.instructions)

\* _.includes(this._breakpoints, this.eip); false while _breakpoints is unset
hasBreakpoint(c) == \E k \in 1..Len(c._breakpoints) : c._breakpoints[k] = eip(c)

\* reset() that leaves EBP as it is.
reset_KeepsEBP(c) ==
    [c EXCEPT !.registers =
        setRegisterValue(setRegisterValue(@, "EIP", 0), "ESP", blockSize(c.memory) - 1)]

reset(c) ==
    [c EXCEPT !.registers =
        setRegisterValue(
            setRegisterValue(
                setRegisterValue(@, "EIP", 0),
                "ESP", blockSize(c.memory) - 1),
            "EBP", blockSize(c.memory) - 1)]

\* clearTimeout(this.scheduleTimeout) when a handle is held
clearScheduledRun(c) ==
    IF c.scheduleTimeout # NullNumber
    THEN [c EXCEPT !.timers = @ \ {c.scheduleTimeout}]
    ELSE c

\* The handle setTimeout returns: one no pending timer has.
newTimer(timers) ==
    CHOOSE t \in 0..Cardinality(timers) :
        t \notin timers /\ \A u \in 0..(t - 1) : u \in timers

\* scheduleRun() that does not clear the timer it holds.
scheduleRun_NoClear(c) ==
    [c EXCEPT !.timers = @ \cup {newTimer(c.timers)}, !.scheduleTimeout = newTimer(c.timers)]

scheduleRun(c) ==
    LET cleared == clearScheduledRun(c)
        t == newTimer(cleared.timers)
    IN [cleared EXCEPT !.timers = @ \cup {t}, !.scheduleTimeout = t]

run(c) == scheduleRun([c EXCEPT !._running = TRUE])

pause(c) == clearScheduledRun([c EXCEPT !._running = FALSE])

\* What an observer does when it is notified: nothing, or a call of run() or
\* pause() on the CPU.
Observers == {"none", "run", "pause"}

observe(c, observer) ==
    CASE observer = "run"   -> run(c)
      [] observer = "pause" -> pause(c)
      [] OTHER              -> c

\* this.onExit.notify(this)
notifyExit(c, observer) == observe([c EXCEPT !.exits = @ + 1], observer)

\* The value an operand reads.
parameterValue(c, parameter) ==
    CASE parameter.tag = "Constant" -> parameter.value
      [] parameter.tag = "Reg" -> getRegisterValue(c.registers, getRegisterByIndex(parameter.registerId))
      [] parameter.tag = "Label" -> parameter.address
      [] OTHER -> 0

\* instruction.execute(cpu): the CPU after it and the next address.
\* MOV writes its source into its target register, JMP goes to its label's
\* address, INT notifies the interrupt observers.
execute(c, instruction, observer) ==
    CASE instruction.name = "MOV" /\ instruction.parameters[1].tag = "Reg" ->
            [cpu |-> [c EXCEPT !.registers =
                        setRegisterValue(@, getRegisterByIndex(instruction.parameters[1].registerId),
                                         parameterValue(c, instruction.parameters[2]))],
             nextAddress |-> eip(c) + 1]
      [] instruction.name = "JMP" ->
            [cpu |-> c, nextAddress |-> parameterValue(c, instruction.parameters[1])]
      [] instruction.name = "INT" ->
            [cpu |-> observe(c, observer), nextAddress |-> eip(c) + 1]
      [] OTHER -> [cpu |-> c, nextAddress |-> eip(c) + 1]

\* program.getInstructionByAddress(cpu, eip)
loadInstruction(c, address) == c.program.instructions[address + 1]

\* executeOneInstruction() that leaves EIP as the instruction left it.
executeOneInstruction_KeepsEIP(c, observer) ==
    execute(c, loadInstruction(c, eip(c)), observer).cpu

executeOneInstruction(c, observer) ==
    LET instruction == loadInstruction(c, eip(c))
        r == execute(c, instruction, observer)
    IN [r.cpu EXCEPT !.registers = setRegisterValue(@, "EIP", r.nextAddress)]

\* step() that does not pause when the program is finished.
step_NoPauseAtEnd(c, observer) ==
    IF isFinished(c)
    THEN notifyExit(c, observer)
    ELSE IF hasBreakpoint(c)
    THEN IF ~c.stoppedOnBreakpoint
         THEN pause([c EXCEPT !.stoppedOnBreakpoint = TRUE])
         ELSE executeOneInstruction([c EXCEPT !.stoppedOnBreakpoint = FALSE], observer)
    ELSE executeOneInstruction(c, observer)

step(c, observer) ==
    IF isFinished(c)
    THEN notifyExit(pause(c), observer)
    ELSE IF hasBreakpoint(c)
    THEN IF ~c.stoppedOnBreakpoint
         THEN pause([c EXCEPT !.stoppedOnBreakpoint = TRUE])
         ELSE executeOneInstruction([c EXCEPT !.stoppedOnBreakpoint = FALSE], observer)
    ELSE executeOneInstruction(c, observer)

\* tickStep without the test of this.running.
tickStep_NoRunningTest(c, observer) == scheduleRun(step(c, observer))

\* tickStep(): step() then scheduleRun(), the stepped CPU computed once.
tickStep(c, observer) ==
    IF c._running
    THEN CHOOSE r \in {scheduleRun(stepped) : stepped \in {step(c, observer)}} : TRUE
    ELSE c

\* A value of the filter's default predicate (identity): truthy or not.
truthy(value) == value # NullNumber /\ value # 0

\* set breakpoints(value): _.filter(_.map(value, row => getAddressByLine(row), f)).
\* The predicate f is an argument of _.map, which ignores it; _.filter gets
\* no predicate and keeps the truthy elements.
setBreakpoints(c, value) ==
    [c EXCEPT !._breakpoints =
        SelectSeq([k \in 1..Len(value) |-> getAddressByLine(c.program.lineMap, value[k])],
                  truthy)]

\* new CPU(program, memory)
NewCPU(program, memory) ==
    reset([constructed |-> TRUE, program |-> program, memory |-> memory,
           registers |-> NewRegisters, _running |-> FALSE, _breakpoints |-> <<>>,
           stoppedOnBreakpoint |-> FALSE, scheduleTimeout |-> NullNumber,
           timers |-> {}, exits |-> 0])

(***************************************************************************)
(* SpecCPU: a CPU on an assembled program.  `last` records the latest call *)
(* made on the CPU: its name, the branch a step() took, the list assigned  *)
(* by the breakpoint setter and, for a step, the observer notified of the  *)
(* exit.                                                                   *)
(***************************************************************************)
MaxProgramLines == 2
MaxBreakpoints == 1
MaxExits == 2

CpuTextLines ==
    {TextLine(GlobalLabel("a"), Null), TextLine(Null, MovEax5), TextLine(Null, Int0)}

CpuSources == {Parsed(<<>>, t) : t \in SeqsUpTo(CpuTextLines, MaxProgramLines)}

\* The source rows a breakpoint list may name: the rows of the text and one
\* row past its end.
Rows == 0..Len(parsedProgram.text)

Call(op, outcome, value) == [op |-> op, outcome |-> outcome, value |-> value]

\* The branch step() takes from a CPU state.
stepOutcome(c) ==
    IF isFinished(c) THEN "exit"
    ELSE IF hasBreakpoint(c) /\ ~c.stoppedOnBreakpoint THEN "breakpoint"
    ELSE "executed"

InitCPU ==
    /\ parsedProgram \in CpuSources
    /\ asm = assemble(parsedProgram)
    /\ asm.status = "returned"
    /\ cpu = NewCPU(asm.program, MemoryBlock(MemorySize))
    /\ last = Call("new", "none", <<>>)

\* The exit notifications counted are bounded by MaxExits.
MayStep(c) == isFinished(c) => c.exits < MaxExits

\* The observer a step() from the CPU state notifies of the exit, if it does.
exitObserver(c, observer) == IF isFinished(c) THEN observer ELSE "none"

\* A call that ran step() or tickStep().
StepCall(op, outcome, observer) ==
    [op |-> op, outcome |-> outcome, value |-> <<>>, observer |-> observer]

Step ==
    /\ MayStep(cpu)
    /\ \E observer \in Observers :
          /\ cpu' = step(cpu, observer)
          /\ last' = StepCall("step", stepOutcome(cpu), exitObserver(cpu, observer))
    /\ UNCHANGED <<parsedProgram, asm>>

Run ==
    /\ cpu' = run(cpu)
    /\ last' = Call("run", "none", <<>>)
    /\ UNCHANGED <<parsedProgram, asm>>

Pause ==
    /\ cpu' = pause(cpu)
    /\ last' = Call("pause", "none", <<>>)
    /\ UNCHANGED <<parsedProgram, asm>>

Reset ==
    /\ cpu' = reset(cpu)
    /\ last' = Call("reset", "none", <<>>)
    /\ UNCHANGED <<parsedProgram, asm>>

SetBreakpoints ==
    /\ \E value \in SeqsUpTo(Rows, MaxBreakpoints) :
          /\ cpu' = setBreakpoints(cpu, value)
          /\ last' = Call("breakpoints", "none", value)
    /\ UNCHANGED <<parsedProgram, asm>>

\* A pending timer expires and its callback, tickStep, runs.
TimerFires ==
    /\ \E t \in cpu.timers :
          LET c == [cpu EXCEPT !.timers = @ \ {t}]
          IN /\ c._running => MayStep(c)
             /\ \E observer \in Observers :
                   /\ cpu' = tickStep(c, observer)
                   /\ last' = StepCall("tickStep",
                                        IF c._running THEN stepOutcome(c) ELSE "idle",
                                        IF c._running THEN exitObserver(c, observer)
                                        ELSE "none")
    /\ UNCHANGED <<parsedProgram, asm>>

NextCPU == Step \/ Run \/ Pause \/ Reset \/ SetBreakpoints \/ TimerFires

SpecCPU == InitCPU /\ [][NextCPU]_vars

(***************************************************************************)
(* SpecRun: a program started with run() on a new CPU and left to the      *)
(* timers.  A pending timer expires eventually, so TimerExpires is weakly  *)
(* fair.                                                                   *)
(***************************************************************************)
RunTextLines ==
    CpuTextLines \cup {TextLine(Null, Null), TextLine(Null, MovAx7)}

RunSources == {Parsed(<<>>, t) : t \in SeqsUpTo(RunTextLines, MaxProgramLines)}

InitRun ==
    /\ parsedProgram \in RunSources
    /\ asm = assemble(parsedProgram)
    /\ asm.status = "returned"
    /\ cpu = run(NewCPU(asm.program, MemoryBlock(MemorySize)))
    /\ last = Call("run", "none", <<>>)

\* A pending timer expires; no observer calls the CPU.
TimerExpires ==
    /\ \E t \in cpu.timers :
          LET c == [cpu EXCEPT !.timers = @ \ {t}]
          IN /\ c._running => MayStep(c)
             /\ cpu' = tickStep(c, "none")
             /\ last' = StepCall("tickStep",
                                  IF c._running THEN stepOutcome(c) ELSE "idle", "none")
    /\ UNCHANGED <<parsedProgram, asm>>

NextRun == TimerExpires

SpecRun == InitRun /\ [][NextRun]_vars /\ WF_vars(TimerExpires)

(***************************************************************************)
(* SpecCalls: several assemble() calls on one Assembler, one after the     *)
(* other.  `last` keeps the number of calls finished and the program and   *)
(* outcome of the first one.                                               *)
(***************************************************************************)
MaxCalls == 3
MaxCallLines == 2

\* `new AssemblyData()` at the head of assemble(): the default arguments are
\* evaluated at the call, whatever an earlier call left behind.
newAssemblyData_SharedLabels(previous) ==
    [NewAssemblyData EXCEPT !.labelResolver = previous.assemblyData.labelResolver]

newAssemblyData(previous) == NewAssemblyData

\* The state of an assemble() call that follows the call `previous`.
startAssemble(previous) ==
    [NewAssembly EXCEPT !.assemblyData = newAssemblyData(previous)]

\* What a call gives its caller: the Program returned or the exception thrown.
Outcome(a) ==
    IF a.status = "returned" THEN [program |-> a.program] ELSE [exception |-> a.exception]

CallTextLines ==
    {TextLine(GlobalLabel("a"), Null), TextLine(LocalLabel("x"), MovAx7),
     TextLine(Null, JmpA), TextLine(Null, MovEax5)}

CallDataLines == {DataLine(GlobalLabel("b"), 1, <<[tag |-> "Number", value |-> 1]>>)}

CallSources ==
    {Parsed(d, t) : d \in SeqsUpTo(CallDataLines, 1),
                    t \in SeqsUpTo(CallTextLines, MaxCallLines)}

Calls(n, first) == [op |-> "assemble", calls |-> n, first |-> first]

InitCalls ==
    /\ parsedProgram \in CallSources
    /\ asm = startAssemble(NewAssembly)
    /\ cpu = NoCPU
    /\ last = Calls(0, Null)

\* The call has returned or thrown and assemble() is called again.
AssembleAgain ==
    /\ asm.status # "running"
    /\ last.calls + 1 < MaxCalls
    /\ parsedProgram' \in CallSources
    /\ asm' = startAssemble(asm)
    /\ last' = Calls(last.calls + 1,
                     IF last.calls = 0
                     THEN [parsed |-> parsedProgram, outcome |-> Outcome(asm)]
                     ELSE last.first)
    /\ UNCHANGED cpu

NextCalls == AssembleDataLine \/ AssembleTextLine \/ AssembleReturn \/ AssembleAgain

SpecCalls == InitCalls /\ [][NextCalls]_vars

(***************************************************************************)
(* SpecStack: push() and pop() on a new CPU.  `last` keeps the latest      *)
(* call, its argument or result, ESP before it and the values pushed and   *)
(* not yet popped.  Runtime faults are outside the model: push() is called *)
(* with ESP at least 4 and pop() with the four bytes at ESP inside memory. *)
(***************************************************************************)
\* The values pushed: one, two and four bytes wide.
StackValues == {10, 258, 2147483647}

\* The memory sizes of the CPUs: every residue of ESP modulo 4.
StackMemorySizes == (MemorySize - 3)..MemorySize

esp(c) == getRegisterValue(c.registers, "ESP")

\* esp.add(value)
espAdd(c, value) ==
    [c EXCEPT !.registers = setRegisterValue(@, "ESP", esp(c) + value)]

\* this.deref(esp): the view of esp.size bytes of memory at the address in ESP
derefSize == REGISTER_INDEX("ESP").byteSize

\* push() that writes before it moves the stack pointer.
push_WriteFirst(c, value) ==
    espAdd([c EXCEPT !.memory = viewSet(@, esp(c), derefSize, value)], -4)

push(c, value) ==
    LET moved == espAdd(c, -4)
    IN [moved EXCEPT !.memory = viewSet(@, esp(moved), derefSize, value)]

pop(c) ==
    [value |-> viewGet(c.memory, esp(c), derefSize), cpu |-> espAdd(c, 4)]

StackCall(op, value, before, pushed) ==
    [op |-> op, value |-> value, esp |-> before, pushed |-> pushed]

InitStack ==
    /\ parsedProgram = Parsed(<<>>, <<>>)
    /\ asm = assemble(parsedProgram)
    /\ \E size \in StackMemorySizes : cpu = NewCPU(asm.program, MemoryBlock(size))
    /\ last = StackCall("new", 0, esp(cpu), <<>>)

Push ==
    /\ esp(cpu) >= 4
    /\ \E value \in StackValues :
          /\ cpu' = push(cpu, value)
          /\ last' = StackCall("push", value, esp(cpu), Append(last.pushed, value))
    /\ UNCHANGED <<parsedProgram, asm>>

Pop ==
    /\ esp(cpu) + derefSize <= blockSize(cpu.memory)
    /\ cpu' = pop(cpu).cpu
    /\ last' = StackCall("pop", pop(cpu).value, esp(cpu),
                         SubSeq(last.pushed, 1, Len(last.pushed) - 1))
    /\ UNCHANGED <<parsedProgram, asm>>

\* reset() empties the stack: ESP is back at the top of memory.
ResetStack ==
    /\ cpu' = reset(cpu)
    /\ last' = StackCall("reset", 0, esp(cpu), <<>>)
    /\ UNCHANGED <<parsedProgram, asm>>

NextStack == Push \/ Pop \/ ResetStack

SpecStack == InitStack /\ [][NextStack]_vars

(***************************************************************************)
(* SpecRegisters: writes through the register views of a new CPU.  `last`  *)
(* keeps the latest write and the number of writes made.                   *)
(***************************************************************************)
MaxWrites == 2

\* The registers of the banks that have narrower views.
AliasedRegisters == {name \in RegisterNames : REGISTER_INDEX(name).bank \in {4, 5, 6}}

\* The values written through a view of `size` bytes.
RegisterValues(size) ==
    CASE size = 1 -> {1, 255}
      [] size = 2 -> {4660, 65535}
      [] OTHER    -> {16909060, 2147483647}

RegisterWrite(name, value, writes) ==
    [op |-> "write", name |-> name, value |-> value, writes |-> writes]

InitRegisters ==
    /\ parsedProgram = Parsed(<<>>, <<>>)
    /\ asm = assemble(parsedProgram)
    /\ cpu = NewCPU(asm.program, MemoryBlock(MemorySize))
    /\ last = [op |-> "new", writes |-> 0]

\* cpu.getRegisterByName(name).setValue(value)
WriteRegister ==
    /\ last.writes < MaxWrites
    /\ \E name \in AliasedRegisters :
          \E value \in RegisterValues(REGISTER_INDEX(name).byteSize) :
             /\ cpu' = [cpu EXCEPT !.registers = setRegisterValue(@, name, value)]
             /\ last' = RegisterWrite(name, value, last.writes + 1)
    /\ UNCHANGED <<parsedProgram, asm>>

NextRegisters == WriteRegister

SpecRegisters == InitRegisters /\ [][NextRegisters]_vars

(***************************************************************************)
(* SpecReset: step() and reset() on programs that write EBP and ESP, on    *)
(* CPUs of several memory sizes.                                           *)
(***************************************************************************)
MovEbp5 == ParsedInstruction("MOV", <<Reg("EBP"), Constant(5)>>)
MovEsp7 == ParsedInstruction("MOV", <<Reg("ESP"), Constant(7)>>)

ResetTextLines ==
    {TextLine(Null, MovEax5), TextLine(Null, MovEbp5), TextLine(Null, MovEsp7)}

ResetSources == {Parsed(<<>>, t) : t \in SeqsUpTo(ResetTextLines, MaxProgramLines)}

InitReset ==
    /\ parsedProgram \in ResetSources
    /\ asm = assemble(parsedProgram)
    /\ asm.status = "returned"
    /\ \E size \in StackMemorySizes : cpu = NewCPU(asm.program, MemoryBlock(size))
    /\ last = Call("new", "none", <<>>)

NextReset == Step \/ Reset

SpecReset == InitReset /\ [][NextReset]_vars

(***************************************************************************)
(* Properties of assemble().                                               *)
(***************************************************************************)
Data == parsedProgram.data
Text == parsedProgram.text

Returned == asm.status = "returned"
Failed == asm.status = "thrown"
FailedInData == Failed /\ asm.i < Len(Data)
FailedInText == Failed /\ asm.i = Len(Data) /\ asm.j < Len(Text)

\* The entry whose processing threw (the passes stop at it).
FailedEntry == IF asm.i < Len(Data) THEN Data[asm.i + 1] ELSE Text[asm.j + 1]

HasLabel(entry) == entry.line.label # Null
IsLocal(entry) == HasLabel(entry) /\ entry.line.label.local
IsGlobal(entry) == HasLabel(entry) /\ ~entry.line.label.local
LabelName(entry) == entry.line.label.name.value

\* The global label a local label of entries[k] belongs to: the nearest one
\* before it in its own segment (0 when there is none).
GlobalBefore(entries, k) ==
    LET before == {m \in 1..(k - 1) : IsGlobal(entries[m])}
    IN IF before = {} THEN 0 ELSE CHOOSE m \in before : \A n \in before : n <= m

OrphanAt(entries, k) == IsLocal(entries[k]) /\ GlobalBefore(entries, k) = 0

\* The qualified name entries[k] defines (for an entry with a label that is
\* no orphan).
QualifiedName(entries, k) ==
    IF IsLocal(entries[k])
    THEN LabelName(entries[GlobalBefore(entries, k)]) \o "." \o LabelName(entries[k])
    ELSE LabelName(entries[k])

Defines(entries, k) == HasLabel(entries[k]) /\ ~OrphanAt(entries, k)

\* The qualified names defined by the first n entries of a segment.
NamesOf(entries, n) == {QualifiedName(entries, k) : k \in {m \in 1..n : Defines(entries, m)}}

\* Two definitions among the program's lines have the same qualified name.
SameNameTwice ==
    \/ \E k, m \in 1..Len(Data) :
          k < m /\ Defines(Data, k) /\ Defines(Data, m)
                /\ QualifiedName(Data, k) = QualifiedName(Data, m)
    \/ \E k, m \in 1..Len(Text) :
          k < m /\ Defines(Text, k) /\ Defines(Text, m)
                /\ QualifiedName(Text, k) = QualifiedName(Text, m)
    \/ \E k \in 1..Len(Data), m \in 1..Len(Text) :
          Defines(Data, k) /\ Defines(Text, m)
                /\ QualifiedName(Data, k) = QualifiedName(Text, m)

\* The entry that threw defines a name that an earlier entry defined.
FailedAtSecondDefinition ==
    /\ Failed
    /\ \/ /\ asm.i < Len(Data)
          /\ Defines(Data, asm.i + 1)
          /\ QualifiedName(Data, asm.i + 1) \in NamesOf(Data, asm.i)
       \/ /\ asm.i = Len(Data) /\ asm.j < Len(Text)
          /\ Defines(Text, asm.j + 1)
          /\ QualifiedName(Text, asm.j + 1)
                \in NamesOf(Data, Len(Data)) \cup NamesOf(Text, asm.j)

FailedQualifiedName ==
    IF asm.i < Len(Data) THEN QualifiedName(Data, asm.i + 1)
    ELSE QualifiedName(Text, asm.j + 1)

IsAssemblyError(message) ==
    /\ asm.exception.type = "AssemblyException"
    /\ asm.exception.message = message
    /\ asm.exception.line = FailedEntry.location.start.line
    /\ asm.exception.data = FailedEntry.line
    /\ asm.program = Null

InnerKinds(instruction) ==
    [k \in 1..Len(instruction.operands) |-> getInnerParameter(instruction.operands[k]).tag]

KnownMnemonic(instruction) == instruction.name \in InstructionMapping

MaskValid(instruction) ==
    /\ KnownMnemonic(instruction)
    /\ \E m \in 1..Len(getValidParameters(instruction.name)) :
          InnerKinds(instruction) = getValidParameters(instruction.name)[m]

\* C2: a program whose only flaw could be a forward label reference (valid
\* instructions, global labels defined once, a JMP to a label of a later line)
\* assembles, and every such operand then holds the index of the first
\* instruction at or after the label's line.
InstructionsBefore(m) == Cardinality({k \in 1..(m - 1) : Text[k].line.instruction # Null})

ForwardReferenceProgram ==
    /\ \A k \in 1..Len(Data) : ~IsLocal(Data[k])
    /\ \A k \in 1..Len(Text) :
          /\ ~IsLocal(Text[k])
          /\ Text[k].line.instruction \in {Null, MovEax5, MovAx7, JmpA, Int0}
    /\ ~SameNameTwice
    /\ \E k, m \in 1..Len(Text) :
          k < m /\ Text[k].line.instruction = JmpA /\ IsGlobal(Text[m])
                /\ LabelName(Text[m]) = "a"

C2_ForwardReferenceResolves ==
    (ForwardReferenceProgram /\ asm.status # "running") =>
        /\ Returned
        /\ \A k, m \in 1..Len(Text) :
              (Text[k].line.instruction = JmpA /\ IsGlobal(Text[m]) /\ LabelName(Text[m]) = "a")
              => LET p == asm.program.instructions[InstructionsBefore(k) + 1].parameters[1]
                 IN p.resolved /\ p.address = InstructionsBefore(m)

\* C6: no Program is returned for a program in which two label definitions
\* have the same qualified name, and when the second of two such definitions
\* is reached, assembly fails there with the duplicate-label error.
C6_DuplicateLabelFails ==
    /\ Returned => ~SameNameTwice
    /\ FailedAtSecondDefinition =>
          IsAssemblyError("Duplicate label found: " \o FailedQualifiedName)

\* The second definition is in the text segment and the first in the data segment.
C6_Witness ==
    /\ FailedInText /\ FailedAtSecondDefinition
    /\ QualifiedName(Text, asm.j + 1) \in NamesOf(Data, Len(Data))
    /\ asm.exception.message = "Duplicate label found: a"

\* C7: a local label before any global label of its own segment is never
\* accepted, and assembly fails at it with the orphan-local-label error.
C7_OrphanLocalLabelFails ==
    /\ \A k \in 1..asm.i : ~OrphanAt(Data, k)
    /\ \A k \in 1..asm.j : ~OrphanAt(Text, k)
    /\ (FailedInData /\ OrphanAt(Data, asm.i + 1)) =>
          IsAssemblyError("Local label without a global label: " \o LabelName(FailedEntry))
    /\ (FailedInText /\ OrphanAt(Text, asm.j + 1)) =>
          IsAssemblyError("Local label without a global label: " \o LabelName(FailedEntry))

\* C8: every failure that escapes assemble() is an assembly error carrying the
\* 1-based number and the parsed data of the line that caused it.
C8_FailuresCarryLine ==
    Failed =>
        /\ asm.exception.type = "AssemblyException"
        /\ asm.i < Len(Data) \/ asm.j < Len(Text)
        /\ asm.exception.line = FailedEntry.location.start.line
        /\ asm.exception.data = FailedEntry.line
        /\ asm.program = Null

\* C9: an instruction whose innermost operand kinds match no valid mask is
\* never encoded; assembly fails at it with the invalid-operands error naming
\* the instruction, whatever its register names are, and the resolver has
\* recorded no operand of it.
LabelOfLineAccepted(entry) ==
    HasLabel(entry) => ~assembleLabel(entry.line.label, asm.assemblyData, "Text").thrown

HasInvalidOperands(entry) ==
    /\ entry.line.instruction # Null
    /\ KnownMnemonic(entry.line.instruction)
    /\ ~MaskValid(entry.line.instruction)

C9_InvalidOperandsFirst ==
    /\ \A k \in 1..asm.j : ~HasInvalidOperands(Text[k])
    /\ (FailedInText /\ HasInvalidOperands(FailedEntry) /\ LabelOfLineAccepted(FailedEntry)) =>
          /\ IsAssemblyError("Unknown parameter combination for instruction "
                                \o FailedEntry.line.instruction.name)
          /\ \A u \in 1..Len(asm.assemblyData.labelResolver.unresolvedParameters) :
                asm.assemblyData.labelResolver.unresolvedParameters[u].ref[1]
                    <= Len(asm.instructions)

\* The instruction has an invalid kind list and an unknown register name.
C9_Witness ==
    /\ FailedInText
    /\ FailedEntry.line.instruction = Mov5Xyz
    /\ asm.exception.message = "Unknown parameter combination for instruction MOV"

\* C10 as stated: for a program without label statements, assembly succeeds
\* exactly when every instruction's operand kinds pass the valid-mask check,
\* and label resolution changes nothing.
NoLabelStatements ==
    /\ \A k \in 1..Len(Data) : ~HasLabel(Data[k])
    /\ \A k \in 1..Len(Text) : ~HasLabel(Text[k])

TextInstructions == {Text[k].line.instruction : k \in 1..Len(Text)} \ {Null}

ResolutionChangesNothing ==
    Phase(parsedProgram, asm) = "resolve" =>
        resolveAddresses(asm.assemblyData.labelResolver, asm.instructions)
            = Return(asm.instructions, <<>>)

C10_SucceedsIffMasksValid ==
    NoLabelStatements =>
        /\ ResolutionChangesNothing
        /\ asm.status # "running" =>
              (Returned <=> \A ins \in TextInstructions : MaskValid(ins))

\* C10 amended: ... exactly when every instruction has a known mnemonic, passes
\* the valid-mask check, names only known registers and has no label operand.
RegistersKnown(operand) ==
    LET inner == getInnerParameter(operand)
    IN CASE inner.tag = "Reg" -> inner.name \in RegisterNames
         [] inner.tag = "Memory" ->
               /\ inner.baseRegister.name \in RegisterNames
               /\ inner.indexRegister # Null => inner.indexRegister.name \in RegisterNames
         [] OTHER -> TRUE

Encodable(instruction) ==
    /\ MaskValid(instruction)
    /\ \A k \in 1..Len(instruction.operands) :
          /\ RegistersKnown(instruction.operands[k])
          /\ getInnerParameter(instruction.operands[k]).tag # "Label"

C10_SucceedsIffEncodable ==
    NoLabelStatements =>
        /\ ResolutionChangesNothing
        /\ asm.status # "running" =>
              (Returned <=> \A ins \in TextInstructions : Encodable(ins))

\* Every operand-kind list is valid and assembly fails on a register name.
C10_Witness ==
    /\ NoLabelStatements /\ Failed
    /\ \A ins \in TextInstructions : MaskValid(ins)
    /\ asm.exception.message = "Unknown register XYZ"

(***************************************************************************)
(* Properties of the CPU.                                                  *)
(***************************************************************************)
Instructions == asm.program.instructions
LineMap == asm.program.lineMap

\* The CPU as constructed, with the breakpoint list of the latest call assigned.
NewWithBreakpoints ==
    /\ last.op = "breakpoints"
    /\ cpu = setBreakpoints(NewCPU(asm.program, MemoryBlock(MemorySize)), last.value)

\* The list assigned names the source row of the instruction at address 0.
FirstInstructionListed ==
    /\ Len(Instructions) > 0
    /\ \E k \in 1..Len(last.value), m \in 1..Len(LineMap) :
          LineMap[m].address = 0 /\ LineMap[m].line = last.value[k]

\* C1: on a new CPU whose breakpoint list names the row of the first
\* instruction, the first step() pauses and changes no register; the step()
\* that follows a breakpoint stop executes the instruction and writes the
\* next address into EIP.
FirstStepPauses ==
    (NewWithBreakpoints /\ FirstInstructionListed /\ last'.op = "step") =>
        /\ ~cpu'._running
        /\ cpu'.registers = cpu.registers
        /\ eip(cpu') = 0

StepAfterStopExecutes ==
    (last.op = "step" /\ last.outcome = "breakpoint" /\ last'.op = "step") =>
        /\ last'.outcome = "executed"
        /\ eip(cpu') = eip(cpu) + 1

C1_BreakpointAtFirstInstruction == [][FirstStepPauses /\ StepAfterStopExecutes]_vars

\* C3: a timer that expires while the engine is not Running (after pause(),
\* before the next run()) executes nothing, stops at no breakpoint and fires
\* no exit notification; and pause() leaves no timer pending.
TimerIdleWhilePaused ==
    (last'.op = "tickStep" /\ ~cpu._running) =>
        /\ cpu'.registers = cpu.registers
        /\ cpu'.exits = cpu.exits
        /\ cpu'.stoppedOnBreakpoint = cpu.stoppedOnBreakpoint
        /\ ~cpu'._running

PauseCancels == last'.op = "pause" => cpu'.timers = {}

C3_NoTimerStepWhilePaused == [][TimerIdleWhilePaused /\ PauseCancels]_vars

\* A timer expired while the engine was paused before the end of the program.
C3_Witness ==
    /\ last.op = "tickStep" /\ last.outcome = "idle"
    /\ ~cpu._running /\ ~isFinished(cpu)
    /\ eip(cpu) > 0

\* C4: a program started with run() and left to the timers ends Paused with
\* EIP at or past the end of the instructions, the exit notification fired
\* once and never more, and EAX holding what the program last wrote to it.
LastMov ==
    LET movs == {k \in 1..Len(Text) : Text[k].line.instruction \in {MovEax5, MovAx7}}
    IN IF movs = {} THEN Null
       ELSE Text[CHOOSE k \in movs : \A m \in movs : m <= k].line.instruction

ExpectedEAX == IF LastMov = MovEax5 THEN 5 ELSE IF LastMov = MovAx7 THEN 7 ELSE 0

Completed ==
    /\ ~cpu._running
    /\ eip(cpu) >= Len(Instructions)
    /\ cpu.exits = 1
    /\ getRegisterValue(cpu.registers, "EAX") = ExpectedEAX

C5_BreakpointsAreMappedRows ==
    last.op = "breakpoints" =>
        {cpu._breakpoints[k] : k \in 1..Len(cpu._breakpoints)}
            = {LineMap[m].address :
                  m \in {n \in 1..Len(LineMap) :
                            \E k \in 1..Len(last.value) : LineMap[n].line = last.value[k]}}

(***************************************************************************)
(* Properties of repeated assemble() calls.                                *)
(***************************************************************************)
\* The call under way has the program of the first call and has finished.
FirstProgramAgain ==
    /\ last.calls >= 1
    /\ asm.status # "running"
    /\ parsedProgram = last.first.parsed

\* C11: assemble() keeps no state between calls: a program assembled again,
\* directly or after another program, gives the outcome it gave the first
\* time (the same instructions, memory definitions and line map, or the same
\* error).
C11_AssembleKeepsNoState ==
    FirstProgramAgain => Outcome(asm) = last.first.outcome

\* A program that defines two labels was assembled first, another
\* call came between, and the third call has returned it again.
C11_Witness ==
    /\ FirstProgramAgain
    /\ last.calls = 2
    /\ Returned
    /\ Len(asm.assemblyData.labelResolver.labels) >= 2
    /\ Len(Instructions) >= 1

(***************************************************************************)
(* Properties of the stack.                                                *)
(***************************************************************************)
\* push() moves ESP down by 4 and the value is at the new ESP.
PushMovesThenWrites ==
    last'.op = "push" =>
        /\ esp(cpu') = esp(cpu) - 4
        /\ viewGet(cpu'.memory, esp(cpu'), 4) = last'.value

\* pop() returns the value pushed last and not yet popped, and moves ESP up by 4.
PopReturnsLastPushed ==
    (last'.op = "pop" /\ last.pushed # <<>>) =>
        /\ last'.value = last.pushed[Len(last.pushed)]
        /\ esp(cpu') = esp(cpu) + 4

\* pop() directly after push(v) returns v and restores ESP.
PopUndoesPush ==
    (last.op = "push" /\ last'.op = "pop") =>
        /\ last'.value = last.value
        /\ esp(cpu') = last.esp

\* C12: with ESP at least 4, push(v) then pop() returns v and leaves ESP as
\* it was before the push; push moves ESP down by exactly 4 before writing,
\* pop moves it up by exactly 4 after reading, so pops return the pushed
\* values in reverse order.
C12_PushPopRoundTrip ==
    [][PushMovesThenWrites /\ PopReturnsLastPushed /\ PopUndoesPush]_vars

\* Two values were pushed and the second has been popped again.
C12_Witness ==
    /\ last.op = "pop"
    /\ last.value = 2147483647
    /\ Len(last.pushed) = 1 /\ last.pushed[1] = 258
    /\ esp(cpu) = last.esp + 4

(***************************************************************************)
(* Properties of the register views.                                       *)
(***************************************************************************)
\* The 1-byte views of a 2-byte view, and the bank and byte of a 1-byte view.
LowViewOf(name) == CASE name = "AX" -> "AL" [] name = "BX" -> "BL" [] OTHER -> "CL"
HighViewOf(name) == CASE name = "AX" -> "AH" [] name = "BX" -> "BH" [] OTHER -> "CH"
BankOfView(name) ==
    CASE name \in {"AL", "AH"} -> 4 [] name \in {"BL", "BH"} -> 5 [] OTHER -> 6
ByteOfView(name) == IF name \in {"AL", "BL", "CL"} THEN 0 ELSE 1

\* After a write through a 2-byte view its 1-byte views read the two bytes.
WordWriteReadsBack ==
    (last'.op = "write" /\ last'.name \in {"AX", "BX", "CX"}) =>
        /\ getRegisterValue(cpu'.registers, LowViewOf(last'.name)) = last'.value % 256
        /\ getRegisterValue(cpu'.registers, HighViewOf(last'.name)) = last'.value \div 256

\* A write through a 1-byte view changes that byte and no other byte of any bank.
ByteWriteChangesOneByte ==
    (last'.op = "write" /\ last'.name \in {"AL", "AH", "BL", "BH", "CL", "CH"}) =>
        /\ cpu'.registers[BankOfView(last'.name)][ByteOfView(last'.name)] = last'.value
        /\ \A bank \in DOMAIN cpu.registers : \A b \in DOMAIN cpu.registers[bank] :
              (bank # BankOfView(last'.name) \/ b # ByteOfView(last'.name)) =>
                  cpu'.registers[bank][b] = cpu.registers[bank][b]

\* C13: in each bank with aliases, a 2-byte value written through the 2-byte
\* view is read back as its low byte through the low 1-byte view and as its
\* high byte through the high one; a write through a 1-byte view changes only
\* that byte of the bank and nothing of the other banks.
C13_RegisterViewsShareBytes == [][WordWriteReadsBack /\ ByteWriteChangesOneByte]_vars

\* EBX held 0x01020304 and BH was then written: the other three bytes stay.
C13_Witness ==
    /\ last.op = "write" /\ last.name = "BH" /\ last.value = 255
    /\ cpu.registers[5] = (0 :> 4 @@ 1 :> 255 @@ 2 :> 2 @@ 3 :> 1)
    /\ getRegisterValue(cpu.registers, "BX") = 65284

(***************************************************************************)
(* Properties of reset().                                                  *)
(***************************************************************************)
\* C14: after reset(), and after construction, EIP is 0 and ESP and EBP are
\* both the size of the memory minus one.
C14_ResetRegisters ==
    last.op \in {"new", "reset"} =>
        /\ eip(cpu) = 0
        /\ getRegisterValue(cpu.registers, "ESP") = blockSize(cpu.memory) - 1
        /\ getRegisterValue(cpu.registers, "EBP") = blockSize(cpu.memory) - 1

\* reset() was called after a program that writes ESP and EBP ran to its end.
C14_Witness ==
    /\ last.op = "reset"
    /\ cpu.exits >= 1
    /\ Len(Text) = 2
    /\ Text[1].line.instruction = MovEsp7
    /\ Text[2].line.instruction = MovEbp5

(***************************************************************************)
(* Properties of breakpoint stops.                                         *)
(***************************************************************************)
\* The call executed an instruction and so brought EIP to its address: the
\* step that follows meets the address for the first time.
ArrivedBy(call) == call.op \in {"step", "tickStep"} /\ call.outcome = "executed"

\* The step() of the call under way (manual or timer-driven) finds EIP at an
\* active breakpoint.
StepsAtBreakpoint ==
    /\ last'.op \in {"step", "tickStep"}
    /\ last'.outcome # "idle"
    /\ ~isFinished(cpu)
    /\ hasBreakpoint(cpu)

StopsOnArrival ==
    (ArrivedBy(last) /\ StepsAtBreakpoint) =>
        /\ last'.outcome = "breakpoint"
        /\ cpu'.registers = cpu.registers

\* C15: each arrival of EIP at an active breakpoint stops execution once: the
\* first step() with EIP at that address pauses without executing, whatever
\* an earlier stop left behind, and the step() that directly follows the
\* stop executes through it.
C15_StopsOncePerArrival == [][StopsOnArrival /\ StepAfterStopExecutes]_vars

(***************************************************************************)
(* Properties of the timer-driven loop.                                    *)
(***************************************************************************)
\* C16: the loop reschedules itself only while the engine is Running after
\* the step: whenever a scheduled invocation is pending, the engine is
\* Running.
C16_PendingImpliesRunning == cpu.timers # {} => cpu._running

(***************************************************************************)
(* Properties of step().                                                   *)
(***************************************************************************)
\* The call under way runs step(): a manual step or a timer-driven one.
Stepping == last'.op \in {"step", "tickStep"} /\ last'.outcome # "idle"

\* The instruction at the address in EIP before the step.
Fetched == Instructions[eip(cpu) + 1]

\* (1) At or past the end: nothing executed, registers unchanged, one exit
\* notification, Paused unless the exit observer itself calls run().
StepAtEnd ==
    (Stepping /\ isFinished(cpu)) =>
        /\ last'.outcome = "exit"
        /\ cpu'.registers = cpu.registers
        /\ cpu'.exits = cpu.exits + 1
        /\ last'.observer # "run" => ~cpu'._running

\* (2) A breakpoint stop: nothing executed, Paused, no exit notification.
StepStops ==
    (Stepping /\ last'.outcome = "breakpoint") =>
        /\ ~isFinished(cpu) /\ hasBreakpoint(cpu)
        /\ cpu'.registers = cpu.registers
        /\ cpu'.exits = cpu.exits
        /\ ~cpu'._running

\* (3) One instruction executed: fetched below the program length, its effect
\* made once and the next address written into EIP.
StepExecutes ==
    (Stepping /\ last'.outcome = "executed") =>
        /\ eip(cpu) < Len(Instructions)
        /\ eip(cpu') = eip(cpu) + 1
        /\ cpu'.exits = cpu.exits
        /\ Fetched.name = "MOV" => getRegisterValue(cpu'.registers, "EAX") = 5
        /\ Fetched.name = "INT" =>
              \A bank \in DOMAIN cpu.registers :
                  bank # REGISTER_INDEX("EIP").bank =>
                      cpu'.registers[bank] = cpu.registers[bank]

\* C17: each step() does exactly one of three things: at or past the end it
\* executes nothing, keeps every register, pauses and fires the exit
\* notification; or it stops at a breakpoint and executes nothing; or it
\* executes one instruction, fetched below the program length, and writes the
\* next address into EIP.
C17_StepDoesOneThing == [][StepAtEnd /\ StepStops /\ StepExecutes]_vars

\* A step executed the last instruction of a two-instruction program.
C17_Witness ==
    /\ last.op = "step" /\ last.outcome = "executed"
    /\ Len(Instructions) = 2
    /\ eip(cpu) = 2
    /\ getRegisterValue(cpu.registers, "EAX") = 5

(***************************************************************************)
(* Properties of the text-segment pass.                                    *)
(***************************************************************************)
\* The text lines, among the first n, that hold an instruction, in order.
InstructionTextLines(n) ==
    SelectSeq([k \in 1..n |-> k], LAMBDA k : Text[k].line.instruction # Null)

\* The text lines that hold a label, in order.
LabelledTextLines == SelectSeq([k \in 1..Len(Text) |-> k], LAMBDA k : HasLabel(Text[k]))

\* The labels the text pass has defined: those after the data segment's.
TextLabels ==
    SubSeq(asm.assemblyData.labelResolver.labels,
           Cardinality({k \in 1..Len(Data) : HasLabel(Data[k])}) + 1,
           Len(asm.assemblyData.labelResolver.labels))

\* The text pass has been entered: the data pass ended without a failure.
InTextPass == asm.i = Len(Data)

\* C18: after any prefix of the text lines, the text cursor is the number of
\* instructions emitted; the i-th emitted instruction (from 0) is in the Line
\* Map at address i with its own source line; lines without an instruction
\* emit nothing and leave the cursor; a text label's address is the index of
\* the next instruction emitted at or after its line.
C18_TextCursorCountsInstructions ==
    InTextPass =>
        /\ asm.assemblyData.textAddress = Len(asm.instructions)
        /\ Len(asm.instructions) = Len(InstructionTextLines(asm.j))
        /\ Len(asm.assemblyData.lineMap) = Len(asm.instructions)
        /\ \A i \in 1..Len(asm.assemblyData.lineMap) :
              asm.assemblyData.lineMap[i] =
                  [address |-> i - 1,
                   line |-> Text[InstructionTextLines(asm.j)[i]].location.start.line - 1]
        /\ \A n \in 1..Len(TextLabels) :
              TextLabels[n].address = InstructionsBefore(LabelledTextLines[n])

\* After a data line, MOV EAX, 5 and a labelled INT 0 were assembled: the
\* second instruction is at address 1 with source row 2, and so is the label.
C18_Witness ==
    /\ Returned
    /\ Len(Data) = 1
    /\ Len(asm.instructions) = 2
    /\ asm.assemblyData.lineMap[2] = [address |-> 1, line |-> 2]
    /\ Len(TextLabels) = 1 /\ TextLabels[1].address = 1

(***************************************************************************)
(* Properties of the data-segment pass.                                    *)
(***************************************************************************)
\* The values a constant defines: its number, or the codes of its characters.
ConstantValues(constant) ==
    IF constant.tag = "String"
    THEN [j \in 1..Len(constant.value) |-> charCodeAt(constant.value[j])]
    ELSE IF constant.tag = "Number" THEN <<constant.value>> ELSE <<>>

RECURSIVE LineValues(_, _)
LineValues(constants, k) ==
    IF k > Len(constants) THEN <<>>
    ELSE ConstantValues(constants[k]) \o LineValues(constants, k + 1)

\* The element size and value of every definition of a data line.
LineDefinitions(line) ==
    IF line.size = NullNumber THEN <<>>
    ELSE [j \in 1..Len(LineValues(line.constants, 1)) |->
             [size |-> line.size, value |-> LineValues(line.constants, 1)[j]]]

RECURSIVE ExpectedDefinitions(_)
ExpectedDefinitions(n) ==
    IF n = 0 THEN <<>> ELSE ExpectedDefinitions(n - 1) \o LineDefinitions(Data[n].line)

\* The sum of the element sizes of the first n definitions.
RECURSIVE SizesOf(_, _)
SizesOf(definitions, n) ==
    IF n = 0 THEN 0 ELSE SizesOf(definitions, n - 1) + definitions[n].size

\* The data lines, among the first n, that hold a label, in order.
LabelledDataLines(n) == SelectSeq([k \in 1..n |-> k], LAMBDA k : HasLabel(Data[k]))

\* C19: a numeric constant yields one memory definition and a string constant
\* one per character, holding its code; the k-th definition's address is the
\* sum of the element sizes of the earlier definitions, so definitions do not
\* overlap and addresses increase; a data label's address is the cursor at
\* its line; a line without a size emits no definition.
C19_DataCursorSumsSizes ==
    LET definitions == asm.memoryDefinitions
        labels == asm.assemblyData.labelResolver.labels
    IN /\ [k \in 1..Len(definitions) |->
              [size |-> definitions[k].size, value |-> definitions[k].value]]
            = ExpectedDefinitions(asm.i)
       /\ \A k \in 1..Len(definitions) :
             definitions[k].address = SizesOf(definitions, k - 1)
       /\ asm.assemblyData.dataAddress = SizesOf(definitions, Len(definitions))
       /\ \A k, m \in 1..Len(definitions) :
             k < m => definitions[k].address + definitions[k].size <= definitions[m].address
       /\ \A n \in 1..Len(LabelledDataLines(asm.i)) :
             labels[n].address
                 = SizesOf(definitions, Len(ExpectedDefinitions(LabelledDataLines(asm.i)[n] - 1)))

\* `a: db 1` and `.x: dw "hi"` were assembled: three definitions at 0, 1 and
\* 3, the labels at 0 and 1.
C19_Witness ==
    /\ Len(asm.memoryDefinitions) = 3
    /\ asm.memoryDefinitions[3] = [address |-> 3, size |-> 2, value |-> 105]
    /\ asm.assemblyData.labelResolver.labels[2].address = 1
    /\ Returned

(***************************************************************************)
(* Properties of local labels.                                             *)
(***************************************************************************)
\* The line that threw holds nothing but a label whose qualified name no
\* earlier line defined.
FailedAtFreshLabel ==
    /\ Failed
    /\ \/ /\ asm.i < Len(Data)
          /\ Defines(Data, asm.i + 1)
          /\ QualifiedName(Data, asm.i + 1) \notin NamesOf(Data, asm.i)
       \/ /\ asm.i = Len(Data) /\ asm.j < Len(Text)
          /\ Defines(Text, asm.j + 1)
          /\ Text[asm.j + 1].line.instruction = Null
          /\ QualifiedName(Text, asm.j + 1)
                \notin NamesOf(Data, Len(Data)) \cup NamesOf(Text, asm.j)

\* C20: a local label is stored as '<global>.<local>' under the nearest
\* global label before it in its own segment, never under a global label of
\* the other segment; the same local name under two global labels gives two
\* entries and no error; repeated under one global label it fails with the
\* duplicate-label error.
C20_LocalLabelsQualifiedInSegment ==
    LET labels == asm.assemblyData.labelResolver.labels
    IN /\ \A n \in 1..Len(LabelledDataLines(asm.i)) :
             /\ ~OrphanAt(Data, LabelledDataLines(asm.i)[n])
             /\ labels[n].name = QualifiedName(Data, LabelledDataLines(asm.i)[n])
       /\ InTextPass =>
             \A n \in 1..Len(TextLabels) :
                /\ ~OrphanAt(Text, LabelledTextLines[n])
                /\ TextLabels[n].name = QualifiedName(Text, LabelledTextLines[n])
       /\ \A n, m \in 1..Len(labels) : n # m => labels[n].name # labels[m].name
       /\ ~FailedAtFreshLabel
       /\ (FailedAtSecondDefinition /\ IsLocal(FailedEntry)) =>
             IsAssemblyError("Duplicate label found: " \o FailedQualifiedName)

(***************************************************************************)
(* Properties of the scheduled invocations.                                *)
(***************************************************************************)
\* C21: in every interleaving of run(), pause(), manual steps, timer expiries
\* and observers that call run() or pause() during a step, at most one
\* scheduled invocation is pending, and it is the one the engine holds the
\* handle of; run() leaves exactly one pending, also when the engine was
\* Running already.
C21_OnePendingInvocation ==
    /\ Cardinality(cpu.timers) <= 1
    /\ cpu.timers \subseteq {cpu.scheduleTimeout}
    /\ last.op = "run" => cpu._running /\ Cardinality(cpu.timers) = 1

\* A timer-driven step found the program finished and its exit observer
\* called run(): the invocation run() scheduled was replaced by tickStep's.
C21_Witness ==
    /\ last.op = "tickStep" /\ last.outcome = "exit" /\ last.observer = "run"
    /\ cpu._running
    /\ Cardinality(cpu.timers) = 1

====
